---- MODULE Spec2Model ----
(***************************************************************************)
(* Signal lifecycle engine of the FX notifier, as implemented by the two   *)
(* scripts of the repository:                                              *)
(*   botfx.py  worker with Twelve Data, Decimal rounding, lock + gates     *)
(*   bot.py    v2 with Alpha Vantage + ta indicators, single threaded      *)
(* A process runs one of the two scripts (variable prog).                  *)
(*                                                                         *)
(* Prices are integers in units of 0.00001 (so 1.10000 is 110000).         *)
(* Times are integers in seconds.  Indicator values that the code keeps as *)
(* floats are kept as exact fractions [num, den].                          *)
(***************************************************************************)
EXTENDS Integers, Sequences, FiniteSets, TLC

\* ------------------------------------------------------------------ bounds
NumThreads == 2      \* threads that may call the botfx entry points
MaxRuns == 2         \* invocations of send_signals/check_results started
MaxTicks == 1        \* clock advances during a run
MaxInit == 2         \* signals already in the backing file at start
SampleSpan == 2      \* points beyond the window in the series given to rsi/atr

\* ------------------------------------------------------- program constants
HOLD_SECONDS == 300
CUTOFF_SECONDS == 21600
CACHE_TTL == 30
MIN_SERIES == 15
LOOKBACK == 14
MIN_RSI == 30
MAX_RSI == 70
PRICE_COUNT == 21

\* an undefined indicator (Python None): a fraction with denominator 0
None == [num |-> 0, den |-> 0]
IsNone(f) == f.den = 0
NoThread == 0
Threads == 1..NumThreads

PAIRS == << "EUR/USD", "GBP/USD", "AUD/USD", "USD/JPY" >>
NPairs == Len(PAIRS)

IsJPY(pair) == pair = "USD/JPY"

\* tick size of a pair in price units: 0.01 for JPY, else 0.0001
TickOf(pair) == IF IsJPY(pair) THEN 1000 ELSE 10

Sign(direction) == IF direction = "BUY" THEN 1 ELSE -1

\* ------------------------------------------------------------- sequences
RECURSIVE SumSeq(_)
SumSeq(s) == IF s = << >> THEN 0 ELSE Head(s) + SumSeq(Tail(s))

\* lst[-n:]
LastN(s, n) == IF Len(s) <= n THEN s ELSE SubSeq(s, Len(s) - n + 1, Len(s))

Abs(x) == IF x < 0 THEN -x ELSE x

\* [c - p for p, c in zip(closes, closes[1:])]
Deltas(closes) == [j \in 1..(Len(closes) - 1) |-> closes[j + 1] - closes[j]]

\* ------------------------------------------------------------ indicators
\* sma(lst, n): sum(lst[-n:]) / n, None when len(lst) < n
sma(lst, n) ==
    IF Len(lst) >= n THEN [num |-> SumSeq(LastN(lst, n)), den |-> n] ELSE None

rsi(closes) ==
    IF Len(closes) < LOOKBACK + 1 THEN None
    ELSE LET deltas == LastN(Deltas(closes), LOOKBACK)
             gains == [j \in 1..Len(deltas) |-> IF deltas[j] > 0 THEN deltas[j] ELSE 0]
             losses == [j \in 1..Len(deltas) |-> IF deltas[j] < 0 THEN -deltas[j] ELSE 0]
             avg_gain == sma(gains, LOOKBACK)
             avg_loss == sma(losses, LOOKBACK)
         IN  IF IsNone(avg_gain) \/ IsNone(avg_loss)
                \/ avg_gain.num = 0 \/ avg_loss.num = 0 THEN None
             \* 100 - 100 / (1 + rs) with rs = avg_gain / avg_loss
             ELSE [num |-> 100 * avg_gain.num, den |-> avg_gain.num + avg_loss.num]

atr(closes) ==
    IF Len(closes) < LOOKBACK + 1 THEN None
    ELSE sma([j \in 1..(Len(closes) - 1) |-> Abs(closes[j + 1] - closes[j])], LOOKBACK)

\* rsi_val < 30 / rsi_val > 70: comparisons of a fraction with an integer
FracLess(f, k) == f.num < k * f.den
FracGreater(f, k) == f.num > k * f.den

\* ---------------------------------------------------------- tick rounding
\* floor of a / b for b > 0
FloorDiv(a, b) == a \div b

\* Decimal.quantize(tick, ROUND_HALF_UP) of num/den (positive), in price units
QuantizeHalfUp(num, den, tick) ==
    tick * FloorDiv(2 * num + den * tick, 2 * den * tick)

\* round(x / tick) * tick of x = num/den (positive): Python 3 rounds half to even
RoundHalfEven(num, den, tick) ==
    LET q == FloorDiv(num, den * tick)
        rem2 == 2 * (num - q * den * tick)
    IN  IF rem2 < den * tick THEN tick * q
        ELSE IF rem2 > den * tick THEN tick * (q + 1)
        ELSE IF q % 2 = 0 THEN tick * q ELSE tick * (q + 1)

\* ------------------------------------------------ what the adapters return
Scale(pair) == IF IsJPY(pair) THEN 100 ELSE 1

RECURSIVE Walk(_, _)
\* closes starting at start and moving by the given deltas
Walk(start, ds) ==
    IF ds = << >> THEN << start >>
    ELSE << start >> \o Walk(start + Head(ds), Tail(ds))

Rep(n, x) == [j \in 1..n |-> x]

\* delta patterns of the price series the adapter may return (price units)
DownBig == Rep(6, -20) \o << 10 >> \o Rep(7, -20)
UpSmall == Rep(6, 1) \o << -1 >> \o Rep(7, 1)
Flat == [j \in 1..14 |-> IF j % 2 = 0 THEN 20 ELSE -20]
Mono == Rep(14, -20)
Short == Rep(13, -20)
Long == Rep(6, 20) \o DownBig

\* answers of Twelve Data (botfx.py) and of Alpha Vantage (bot.py)
DeltaPool(p) ==
    IF p = "botfx" THEN { DownBig, UpSmall, Flat, Mono, Short, Long }
    ELSE { DownBig, UpSmall, Flat, Short }

StartPrice == 110238

ScaleSeq(s, k) == [j \in 1..Len(s) |-> k * s[j]]

\* outcomes of the time-series request for a pair: a list of closes, an
\* answer without usable values, or a timeout / transport / HTTP error
SeriesFor(p, pair) ==
    { [status |-> "ok", closes |-> ScaleSeq(Walk(StartPrice, ds), Scale(pair))] :
        ds \in DeltaPool(p) }
    \cup { [status |-> "empty", closes |-> << >>], [status |-> "error", closes |-> << >>] }

\* outcomes of the latest-price request for a pair (ok = FALSE: any failure)
LatestFor(pair) ==
    { [ok |-> TRUE, price |-> Scale(pair) * p] : p \in { 109970, 110000, 110020, 110030 } }
    \cup { [ok |-> FALSE, price |-> 0] }

\* ATR and RSI values the ta library may hand to bot.py (price units, percent)
TaAtr == { 1, 20 }
TaRsi == { 20, 50, 80 }

\* what ta can compute from a series: an average true range lies between the
\* smallest and the largest move, and an RSI on the side of the net move
TaConsistent(closes, a, x) ==
    LET ds == Deltas(closes)
        net == closes[Len(closes)] - closes[1]
    IN  /\ \E j \in 1..Len(ds) : Abs(ds[j]) <= a
        /\ \E j \in 1..Len(ds) : a <= Abs(ds[j])
        /\ (x < 50 => net < 0) /\ (x > 50 => net > 0)

\* ----------------------------------------------------------------- signals
Signal(pair, direction, entry, tp, sl, created_at, message_id) ==
    [pair |-> pair, direction |-> direction, entry |-> entry, tp |-> tp,
     sl |-> sl, created_at |-> created_at, message_id |-> message_id]

\* a well-formed signal left in the backing file by an earlier run
OldSignal(pair, direction, created_at, message_id) ==
    Signal(pair, direction, 110000 * Scale(pair),
           (110000 + 30 * Sign(direction)) * Scale(pair),
           (110000 - 20 * Sign(direction)) * Scale(pair),
           created_at, message_id)

\* 06:00:00, and 08:30:00 where a news window of bot.py opens
StartClocks(p) == IF p = "bot" THEN { 21600, 30600 } ELSE { 21600 }
TickSecs == 300
\* pair index, direction and age at start of the signals an earlier run left:
\* past the holding period, inside it, and 300 s short of six hours
OldKinds == { << 1, "BUY", 300 >>, << 1, "SELL", 200 >>,
              << 4, "SELL", 300 >>, << 4, "BUY", 21300 >> }
FirstNewId == 10

HasPair(store, pair) == \E j \in 1..Len(store) : store[j].pair = pair

UniquePairs(store) ==
    \A a, b \in 1..Len(store) : store[a].pair = store[b].pair => a = b

RECURSIVE StoresOfLen(_, _)
\* contents of the backing file: up to n signals, one per pair, ids 1..n
StoresOfLen(n, c0) ==
    IF n = 0 THEN { << >> }
    ELSE { Append(st, OldSignal(PAIRS[k[1]], k[2], c0 - k[3], n)) :
             st \in { x \in StoresOfLen(n - 1, c0) : Len(x) = n - 1 }, k \in OldKinds }
         \cup StoresOfLen(n - 1, c0)

InitStores(c0) == { st \in StoresOfLen(MaxInit, c0) : UniquePairs(st) }

\* -------------------------------------------------------------------- state
VARIABLES
    prog,              \* the script this process runs: "botfx" or "bot"
    boot,              \* the backing file the process finds at start, then
                       \* "running" (scheduler started) or "failed" (start raised)
    sample,            \* a series of closes and what rsi() and atr() gave for it
    clock,             \* wall clock, seconds
    ticks,             \* clock advances so far
    runs,              \* task invocations started so far
    ACTIVE_S,          \* botfx.py: open signals in memory
    signals_json,      \* botfx.py: the signals in SIGNAL_F (none unless it loads)
    ACTIVE_SIGNALS,    \* bot.py: open signals in memory
    signals_v2_json,   \* bot.py: the signals in SIGNAL_FILE (none unless it loads)
    lock,              \* botfx.py: thread holding `lock`, or NoThread
    SEND_LOCK,         \* botfx.py: value of the semaphore
    CHECK_LOCK,        \* botfx.py: value of the semaphore
    CACHE,             \* botfx.py: symbol -> (time, price)
    outbox,            \* messages the chat received, in order
    nextId,            \* message_id the chat hands out next
    th,                \* per thread: position and locals of its invocation
    prev               \* what the latest check_results call did, while no other
                       \* task and no clock tick has followed it

vars == << prog, boot, sample, clock, ticks, runs, ACTIVE_S, signals_json, ACTIVE_SIGNALS,
           signals_v2_json, lock, SEND_LOCK, CHECK_LOCK, CACHE, outbox, nextId, th,
           prev >>

NoSignal == Signal("", "", 0, 0, 0, 0, 0)

\* one loop iteration of check_results: the signal, whether its latest price
\* was looked up and obtained, the price, and the result label ("": none)
Eval(sig, looked, got, price, result) ==
    [sig |-> sig, looked |-> looked, got |-> got, price |-> price, result |-> result]

NoEval == Eval(NoSignal, FALSE, FALSE, 0, "")

\* a thread that is in neither task
IdleThread ==
    [pc |-> "idle", i |-> 0, dt |-> 0, cand |-> NoSignal, m |-> 0,
     signals |-> << >>, still |-> << >>, k |-> 0,
     req |-> {},       \* pairs whose price series this invocation requested
     none |-> {},      \* signals whose latest price it found unavailable
     tried |-> {},     \* result notifications it attempted: [sig, ok]
     last |-> NoEval]  \* what the latest loop iteration of check_results did

\* no check_results call to speak of
NoPrev == [valid |-> FALSE, resolved |-> {}]

\* the record of a check_results call that attempted the notifications in tried
Done(tried) == [valid |-> TRUE, resolved |-> { x.sig : x \in tried }]

NoCache == [set |-> FALSE, t |-> 0, price |-> 0]

PairSet == { PAIRS[j] : j \in 1..NPairs }

\* the backing file at process start: absent, cut short (not valid JSON), not
\* valid UTF-8, or the JSON an earlier run wrote
FileKinds == { "missing", "truncated", "garbled", "ok" }

\* no series under study
NoSample == [closes |-> << >>, done |-> FALSE, rsi |-> None, atr |-> None]

\* botfx.py lines 49-53: try: json.load(f) except (FileNotFoundError,
\* json.JSONDecodeError): [] -- a UnicodeDecodeError is not caught.
\* bot.py lines 69-70: json.load(open(path)) if os.path.exists(path) else
\* default -- nothing is caught.  "content", "empty" or "raise".
load_json(p, file) ==
    IF file = "ok" THEN "content"
    ELSE IF file = "missing" THEN "empty"
    ELSE IF p = "botfx" /\ file = "truncated" THEN "empty"
    ELSE "raise"

\* the process before its module-level code has run
Init ==
    /\ prog \in { "botfx", "bot" }
    /\ boot \in FileKinds
    /\ sample = NoSample
    /\ clock \in StartClocks(prog)
    /\ ticks = 0
    /\ runs = 0
    /\ \E st \in InitStores(clock) :
          /\ boot # "ok" => st = << >>
          /\ signals_json = (IF prog = "botfx" THEN st ELSE << >>)
          /\ signals_v2_json = (IF prog = "bot" THEN st ELSE << >>)
    /\ ACTIVE_S = << >>
    /\ ACTIVE_SIGNALS = << >>
    /\ lock = NoThread
    /\ SEND_LOCK = 1
    /\ CHECK_LOCK = 1
    /\ CACHE = [p \in PairSet |-> NoCache]
    /\ outbox = << >>
    /\ nextId = FirstNewId
    /\ th = [t \in Threads |-> IdleThread]
    /\ prev = NoPrev

\* module start: ACTIVE_S / ACTIVE_SIGNALS loaded from the backing file, then
\* the scheduler is set up; an exception at load ends the process
Load ==
    /\ boot \in FileKinds
    /\ LET got == load_json(prog, boot)
       IN  /\ boot' = IF got = "raise" THEN "failed" ELSE "running"
           /\ ACTIVE_S' = IF got = "content" THEN signals_json ELSE << >>
           /\ ACTIVE_SIGNALS' = IF got = "content" THEN signals_v2_json ELSE << >>
    /\ UNCHANGED << sample, prog, clock, ticks, runs, signals_json, signals_v2_json,
                    lock, SEND_LOCK, CHECK_LOCK, CACHE, outbox, nextId, th, prev >>

\* time passes
Tick ==
    /\ boot = "running"
    /\ ticks < MaxTicks
    /\ clock' = clock + TickSecs
    /\ ticks' = ticks + 1
    /\ prev' = NoPrev
    /\ UNCHANGED << boot, sample, prog, runs, ACTIVE_S, signals_json, ACTIVE_SIGNALS, signals_v2_json,
                    lock, SEND_LOCK, CHECK_LOCK, CACHE, outbox, nextId, th >>

\* ---------------------------------------------------- botfx.py send_signals
\* `continue` / end of the loop body: the next pair, or the finally clause
NextPair(r) ==
    IF r.i < NPairs
    THEN [r EXCEPT !.pc = "snd_chk", !.i = r.i + 1, !.cand = NoSignal, !.m = 0]
    ELSE [r EXCEPT !.pc = "snd_end", !.cand = NoSignal, !.m = 0]

\* if not SEND_LOCK.acquire(blocking=False): return
FxSendBegin(t) ==
    /\ prog = "botfx"
    /\ boot = "running"
    /\ th[t].pc = "idle"
    /\ runs < MaxRuns
    /\ runs' = runs + 1
    /\ IF SEND_LOCK > 0
       THEN /\ SEND_LOCK' = SEND_LOCK - 1
            /\ th' = [th EXCEPT ![t] = [IdleThread EXCEPT !.pc = "snd_chk", !.i = 1,
                                                          !.dt = clock]]
       ELSE UNCHANGED << SEND_LOCK, th >>
    /\ prev' = NoPrev
    /\ UNCHANGED << boot, sample, prog, clock, ticks, ACTIVE_S, signals_json, ACTIVE_SIGNALS,
                    signals_v2_json, lock, CHECK_LOCK, CACHE, outbox, nextId >>

\* the duplicate test left out
FxAlreadyOpen_Never(store, pair) == FALSE

\* any(s["pair"] == pair for s in ACTIVE_S)
FxAlreadyOpen(store, pair) == HasPair(store, pair)

\* with lock: if any(...): continue
FxSendCheck(t) ==
    /\ th[t].pc = "snd_chk"
    /\ lock = NoThread
    /\ th' = [th EXCEPT ![t] =
                IF FxAlreadyOpen(ACTIVE_S, PAIRS[th[t].i]) THEN NextPair(th[t])
                ELSE [th[t] EXCEPT !.pc = "snd_fetch"]]
    /\ prev' = NoPrev
    /\ UNCHANGED << boot, sample, prog, clock, ticks, runs, ACTIVE_S, signals_json, ACTIVE_SIGNALS,
                    signals_v2_json, lock, SEND_LOCK, CHECK_LOCK, CACHE, outbox, nextId >>

\* get_price_series: closes[-count:] of the answer, None on any failure
get_price_series(resp) ==
    IF resp.status = "ok" THEN LastN(resp.closes, PRICE_COUNT) ELSE << >>

\* "BUY" if rsi_val < 30 else "SELL" if rsi_val > 70 else None ("" here)
FxDirection(rsi_val) ==
    IF FracLess(rsi_val, MIN_RSI) THEN "BUY"
    ELSE IF FracGreater(rsi_val, MAX_RSI) THEN "SELL" ELSE ""

\* (current + atr * 1.5 * sign).quantize(tick, ROUND_HALF_UP)
FxTp(pair, direction, current, atr_val) ==
    QuantizeHalfUp(2 * atr_val.den * current + Sign(direction) * 3 * atr_val.num,
                   2 * atr_val.den, TickOf(pair))

\* (current - atr * 1.0 * sign).quantize(tick, ROUND_HALF_UP)
FxSl(pair, direction, current, atr_val) ==
    QuantizeHalfUp(atr_val.den * current - Sign(direction) * atr_val.num,
                   atr_val.den, TickOf(pair))

\* lines 142-160: the signal send_signals would announce for these closes,
\* NoSignal when the pair is skipped
FxCandidate(pair, closes, dt) ==
    IF Len(closes) < MIN_SERIES THEN NoSignal
    ELSE LET current == closes[Len(closes)]
             rsi_val == rsi(closes)
             atr_val == atr(closes)
         IN  IF IsNone(rsi_val) \/ IsNone(atr_val) THEN NoSignal
             ELSE LET direction == FxDirection(rsi_val)
                  IN  IF direction = "" THEN NoSignal
                      ELSE Signal(pair, direction, current,
                                  FxTp(pair, direction, current, atr_val),
                                  FxSl(pair, direction, current, atr_val), dt, 0)

\* closes = get_price_series(pair) and the decision that follows
FxSendFetch(t) ==
    /\ th[t].pc = "snd_fetch"
    /\ \E resp \in SeriesFor("botfx", PAIRS[th[t].i]) :
          LET pair == PAIRS[th[t].i]
              c == FxCandidate(pair, get_price_series(resp), th[t].dt)
              r == [th[t] EXCEPT !.req = @ \cup { pair }]
          IN  th' = [th EXCEPT ![t] =
                       IF c = NoSignal THEN NextPair(r)
                       ELSE [r EXCEPT !.pc = "snd_notify", !.cand = c]]
    /\ prev' = NoPrev
    /\ UNCHANGED << boot, sample, prog, clock, ticks, runs, ACTIVE_S, signals_json, ACTIVE_SIGNALS,
                    signals_v2_json, lock, SEND_LOCK, CHECK_LOCK, CACHE, outbox, nextId >>

Message(kind, pair, id, reply_to) ==
    [kind |-> kind, pair |-> pair, id |-> id, reply_to |-> reply_to]

\* m = bot.send_message(...): delivered (m.message_id) or an exception
FxSendNotify(t) ==
    /\ th[t].pc = "snd_notify"
    /\ \E ok \in BOOLEAN :
          IF ok
          THEN /\ outbox' = Append(outbox, Message("signal", th[t].cand.pair, nextId, 0))
               /\ nextId' = nextId + 1
               /\ th' = [th EXCEPT ![t] = [th[t] EXCEPT !.pc = "snd_append", !.m = nextId]]
          ELSE /\ th' = [th EXCEPT ![t] = NextPair(th[t])]
               /\ UNCHANGED << outbox, nextId >>
    /\ prev' = NoPrev
    /\ UNCHANGED << boot, sample, prog, clock, ticks, runs, ACTIVE_S, signals_json, ACTIVE_SIGNALS,
                    signals_v2_json, lock, SEND_LOCK, CHECK_LOCK, CACHE >>

\* the handle of the announcement not stored
FxRecord_NoHandle(cand, m) == cand

\* the dict of lines 176-184: the announced signal with "message_id": m.message_id
FxRecord(cand, m) == [cand EXCEPT !.message_id = m]

\* with lock: ACTIVE_S.append({...})  (the lock stays held for the save() call)
FxSendAppend(t) ==
    /\ th[t].pc = "snd_append"
    /\ lock = NoThread
    /\ lock' = t
    /\ ACTIVE_S' = Append(ACTIVE_S, FxRecord(th[t].cand, th[t].m))
    /\ th' = [th EXCEPT ![t] = [th[t] EXCEPT !.pc = "snd_save"]]
    /\ prev' = NoPrev
    /\ UNCHANGED << boot, sample, prog, clock, ticks, runs, signals_json, ACTIVE_SIGNALS,
                    signals_v2_json, SEND_LOCK, CHECK_LOCK, CACHE, outbox, nextId >>

\* finally: SEND_LOCK.release()
FxSendEnd(t) ==
    /\ th[t].pc = "snd_end"
    /\ SEND_LOCK' = SEND_LOCK + 1
    /\ th' = [th EXCEPT ![t] = IdleThread]
    /\ prev' = NoPrev
    /\ UNCHANGED << boot, sample, prog, clock, ticks, runs, ACTIVE_S, signals_json, ACTIVE_SIGNALS,
                    signals_v2_json, lock, CHECK_LOCK, CACHE, outbox, nextId >>

\* threading.Lock().acquire() by thread t succeeds only on a free lock
CanAcquire(l, t) == l = NoThread

\* save(): with lock: json.dump(ACTIVE_S, f).  Called at the end of the
\* `with lock:` bodies of send_signals and check_results; when it returns the
\* caller leaves its with block (releasing `lock`) and goes on.
save(t) ==
    /\ th[t].pc \in { "snd_save", "chk_save", "snd_save_wait", "chk_save_wait" }
    /\ IF CanAcquire(lock, t)
       THEN /\ signals_json' = ACTIVE_S
            /\ lock' = NoThread
            /\ IF th[t].pc \in { "snd_save", "snd_save_wait" }
               THEN /\ th' = [th EXCEPT ![t] = NextPair(th[t])]
                    /\ UNCHANGED CHECK_LOCK
               ELSE /\ th' = [th EXCEPT ![t] = IdleThread]
                    /\ CHECK_LOCK' = CHECK_LOCK + 1
       ELSE \* lock.acquire() blocks
            /\ th[t].pc \in { "snd_save", "chk_save" }
            /\ th' = [th EXCEPT ![t] = [th[t] EXCEPT !.pc =
                         IF th[t].pc = "snd_save" THEN "snd_save_wait" ELSE "chk_save_wait"]]
            /\ UNCHANGED << signals_json, lock, CHECK_LOCK >>
    /\ prev' = IF th[t].pc \in { "snd_save", "snd_save_wait" } THEN NoPrev ELSE prev
    /\ UNCHANGED << boot, sample, prog, clock, ticks, runs, ACTIVE_S, ACTIVE_SIGNALS,
                    signals_v2_json, SEND_LOCK, CACHE, outbox, nextId >>

\* --------------------------------------------------- botfx.py check_results
\* if not CHECK_LOCK.acquire(blocking=False): return
FxCheckBegin(t) ==
    /\ prog = "botfx"
    /\ boot = "running"
    /\ th[t].pc = "idle"
    /\ runs < MaxRuns
    /\ runs' = runs + 1
    /\ IF CHECK_LOCK > 0
       THEN /\ CHECK_LOCK' = CHECK_LOCK - 1
            /\ th' = [th EXCEPT ![t] = [IdleThread EXCEPT !.pc = "chk_snap", !.dt = clock]]
       ELSE UNCHANGED << CHECK_LOCK, th >>
    /\ UNCHANGED prev
    /\ UNCHANGED << boot, sample, prog, clock, ticks, ACTIVE_S, signals_json, ACTIVE_SIGNALS,
                    signals_v2_json, lock, SEND_LOCK, CACHE, outbox, nextId >>

\* datetime.fromisoformat(s["created_at"]) > cutoff, cutoff = now - 6 h
FxRecent(now, s) == s.created_at > now - CUTOFF_SECONDS

\* with lock: signals = [s for s in ACTIVE_S if ... > cutoff]; still = []
FxCheckSnapshot(t) ==
    /\ th[t].pc = "chk_snap"
    /\ lock = NoThread
    /\ LET signals == SelectSeq(ACTIVE_S, LAMBDA s : FxRecent(th[t].dt, s))
       IN  th' = [th EXCEPT ![t] = [th[t] EXCEPT !.signals = signals, !.still = << >>,
                     !.k = 1, !.pc = IF signals = << >> THEN "chk_write" ELSE "chk_loop"]]
    /\ UNCHANGED prev
    /\ UNCHANGED << boot, sample, prog, clock, ticks, runs, ACTIVE_S, signals_json, ACTIVE_SIGNALS,
                    signals_v2_json, lock, SEND_LOCK, CHECK_LOCK, CACHE, outbox, nextId >>

\* a holding period of 200 seconds
InHolding_Short(now, sig) == now - sig.created_at < 200

\* (now - created_at).total_seconds() < 300
InHolding(now, sig) == now - sig.created_at < HOLD_SECONDS

\* strict comparisons with tp and sl
FxResult_Strict(sig, current) ==
    IF (sig.direction = "BUY" /\ current > sig.tp)
       \/ (sig.direction = "SELL" /\ current < sig.tp) THEN "GANADA"
    ELSE IF (sig.direction = "BUY" /\ current < sig.sl)
            \/ (sig.direction = "SELL" /\ current > sig.sl) THEN "PERDIDA"
    ELSE ""

\* botfx.py lines 210-216: the result label, "" for None
FxResult(sig, current) ==
    IF (sig.direction = "BUY" /\ current >= sig.tp)
       \/ (sig.direction = "SELL" /\ current <= sig.tp) THEN "GANADA"
    ELSE IF (sig.direction = "BUY" /\ current <= sig.sl)
            \/ (sig.direction = "SELL" /\ current >= sig.sl) THEN "PERDIDA"
    ELSE ""

\* symbol in CACHE and time.time() - CACHE[symbol][0] < 30
CacheFresh(entry, now) == entry.set /\ now - entry.t < CACHE_TTL

\* botfx.py lines 225-231: does the signal stay open after this evaluation;
\* delivered tells whether send_message returned
FxKeeps(result, delivered) == result = ""

\* one iteration of `for sig in signals`
FxCheckEval(t) ==
    /\ th[t].pc = "chk_loop"
    /\ LET sig == th[t].signals[th[t].k]
           nxt(r) == [r EXCEPT !.k = @ + 1,
                         !.pc = IF th[t].k < Len(th[t].signals) THEN "chk_loop"
                                ELSE "chk_write"]
           keep(r) == nxt([r EXCEPT !.still = Append(@, sig)])
       IN  IF InHolding(th[t].dt, sig)
           THEN /\ th' = [th EXCEPT ![t] =
                            keep([th[t] EXCEPT !.last = Eval(sig, FALSE, FALSE, 0, "")])]
                /\ UNCHANGED << CACHE, outbox, nextId >>
           ELSE \E resp \in LatestFor(sig.pair), ok \in BOOLEAN :
                  LET hit == CacheFresh(CACHE[sig.pair], clock)
                      \* cached_price(sig["pair"])
                      got == hit \/ resp.ok
                      current == IF hit THEN CACHE[sig.pair].price ELSE resp.price
                      result == FxResult(sig, current)
                  IN  /\ CACHE' = IF ~hit /\ resp.ok
                                  THEN [CACHE EXCEPT ![sig.pair] =
                                          [set |-> TRUE, t |-> clock, price |-> resp.price]]
                                  ELSE CACHE
                      /\ IF ~got
                         THEN /\ th' = [th EXCEPT ![t] =
                                          keep([th[t] EXCEPT !.none = @ \cup { sig },
                                                  !.last = Eval(sig, TRUE, FALSE, 0, "")])]
                              /\ UNCHANGED << outbox, nextId >>
                         ELSE IF result = ""
                         THEN /\ th' = [th EXCEPT ![t] =
                                          keep([th[t] EXCEPT
                                                  !.last = Eval(sig, TRUE, TRUE, current, "")])]
                              /\ UNCHANGED << outbox, nextId >>
                         ELSE LET r2 == [th[t] EXCEPT
                                            !.tried = @ \cup { [sig |-> sig, ok |-> ok] },
                                            !.last = Eval(sig, TRUE, TRUE, current, result)]
                              IN  /\ th' = [th EXCEPT ![t] =
                                              IF FxKeeps(result, ok) THEN keep(r2) ELSE nxt(r2)]
                                  /\ IF ok
                                     THEN /\ outbox' = Append(outbox,
                                               Message(result, sig.pair, nextId, sig.message_id))
                                          /\ nextId' = nextId + 1
                                     ELSE UNCHANGED << outbox, nextId >>
    /\ UNCHANGED prev
    /\ UNCHANGED << boot, sample, prog, clock, ticks, runs, ACTIVE_S, signals_json, ACTIVE_SIGNALS,
                    signals_v2_json, lock, SEND_LOCK, CHECK_LOCK >>

\* the kept signals written back in reverse order
FxReplace_Reversed(store, still) ==
    [j \in 1..Len(still) |-> still[Len(still) + 1 - j]]

\* ACTIVE_S[:] = still: the new content of the list
FxReplace(store, still) == still

\* with lock: ACTIVE_S[:] = still  (the lock stays held for the save() call)
FxCheckWrite(t) ==
    /\ th[t].pc = "chk_write"
    /\ lock = NoThread
    /\ lock' = t
    /\ ACTIVE_S' = FxReplace(ACTIVE_S, th[t].still)
    /\ th' = [th EXCEPT ![t] = [th[t] EXCEPT !.pc = "chk_save"]]
    /\ prev' = Done(th[t].tried)
    /\ UNCHANGED << boot, sample, prog, clock, ticks, runs, signals_json, ACTIVE_SIGNALS,
                    signals_v2_json, SEND_LOCK, CHECK_LOCK, CACHE, outbox, nextId >>

\* ------------------------------------------------------------------- bot.py
\* the scheduler of bot.py runs every job in the main thread
MainThread == 1

NEWS_TIMES == { << 8, 30, 9, 30 >>, << 14, 0, 15, 0 >> }

\* start <= t <= end for one of the news windows (t: time of day of dt)
is_news_time(dt) ==
    LET tod == dt % 86400
    IN  \E w \in NEWS_TIMES :
           /\ w[1] * 3600 + w[2] * 60 <= tod
           /\ tod <= w[3] * 3600 + w[4] * 60

\* dt = now_peru(); if is_news_time(dt): return
V2SendBegin(t) ==
    /\ prog = "bot"
    /\ boot = "running"
    /\ t = MainThread
    /\ th[t].pc = "idle"
    /\ runs < MaxRuns
    /\ runs' = runs + 1
    /\ th' = [th EXCEPT ![t] =
                IF is_news_time(clock) THEN IdleThread
                ELSE [IdleThread EXCEPT !.pc = "v2_snd", !.i = 1, !.dt = clock]]
    /\ prev' = NoPrev
    /\ UNCHANGED << boot, sample, prog, clock, ticks, ACTIVE_S, signals_json, ACTIVE_SIGNALS,
                    signals_v2_json, lock, SEND_LOCK, CHECK_LOCK, CACHE, outbox, nextId >>

\* the duplicate test left out
V2AlreadyOpen_Never(store, pair) == FALSE

\* any(s["pair"] == pair for s in ACTIVE_SIGNALS)
V2AlreadyOpen(store, pair) == HasPair(store, pair)

\* "BUY" if rsi < MIN_RSI, "SELL" if rsi > MAX_RSI, else `continue` ("" here)
V2Direction(rsi_val) ==
    IF rsi_val < MIN_RSI THEN "BUY" ELSE IF rsi_val > MAX_RSI THEN "SELL" ELSE ""

\* round((last_close + atr * 1.5 * sign) / tick_size) * tick_size
V2Tp(pair, direction, last_close, atr_val) ==
    RoundHalfEven(2 * last_close + Sign(direction) * 3 * atr_val, 2, TickOf(pair))

\* round((last_close - atr * 1.0 * sign) / tick_size) * tick_size
V2Sl(pair, direction, last_close, atr_val) ==
    RoundHalfEven(last_close - Sign(direction) * atr_val, 1, TickOf(pair))

\* get_alpha_series: closes.iloc[-outputsize:], outputsize = LOOKBACK + 1
get_alpha_series(resp) == LastN(resp.closes, LOOKBACK + 1)

\* calc_indicators: (None, None) for a short series (-1 here), else what the
\* ta library computes for the series (k: the scale of the pair's prices)
calc_indicators(series, k) ==
    IF Len(series) < LOOKBACK + 1 THEN { [atr |-> -1, rsi |-> -1] }
    ELSE { [atr |-> pr[1] * k, rsi |-> pr[2]] :
             pr \in { q \in TaAtr \X TaRsi : TaConsistent(series, q[1] * k, q[2]) } }

\* the loop of send_signals after the main thread leaves it
V2NextPair(r) ==
    IF r.i < NPairs THEN [r EXCEPT !.i = r.i + 1] ELSE IdleThread

\* one iteration of `for base, quote in PAIRS`
V2SendPair(t) ==
    /\ th[t].pc = "v2_snd"
    /\ LET pair == PAIRS[th[t].i]
       IN  IF V2AlreadyOpen(ACTIVE_SIGNALS, pair)
           THEN /\ th' = [th EXCEPT ![t] = V2NextPair(th[t])]
                /\ UNCHANGED << ACTIVE_SIGNALS, signals_v2_json, outbox, nextId >>
           ELSE \E resp \in SeriesFor("bot", pair) :
                \E ind \in calc_indicators(get_alpha_series(resp), Scale(pair)), ok \in BOOLEAN :
                  LET r == [th[t] EXCEPT !.req = @ \cup { pair }]
                      closes == get_alpha_series(resp)
                      last_close == closes[Len(closes)]
                      direction == V2Direction(ind.rsi)
                      atr_val == ind.atr
                      sig == Signal(pair, direction, last_close,
                                    V2Tp(pair, direction, last_close, atr_val),
                                    V2Sl(pair, direction, last_close, atr_val),
                                    th[t].dt, nextId)
                  IN  IF resp.status = "error"
                      THEN \* requests.get / raise_for_status raises: nothing catches it
                           /\ th' = [th EXCEPT ![t] = [r EXCEPT !.pc = "crashed"]]
                           /\ UNCHANGED << ACTIVE_SIGNALS, signals_v2_json, outbox, nextId >>
                      ELSE IF \/ resp.status = "empty"
                              \/ ind.atr < 0 \/ ind.rsi < 0
                              \/ direction = ""
                      THEN /\ th' = [th EXCEPT ![t] = V2NextPair(r)]
                           /\ UNCHANGED << ACTIVE_SIGNALS, signals_v2_json, outbox, nextId >>
                      ELSE IF ok
                      THEN /\ outbox' = Append(outbox, Message("signal", pair, nextId, 0))
                           /\ nextId' = nextId + 1
                           /\ ACTIVE_SIGNALS' = Append(ACTIVE_SIGNALS, sig)
                           /\ signals_v2_json' = ACTIVE_SIGNALS'
                           /\ th' = [th EXCEPT ![t] = V2NextPair(r)]
                      ELSE /\ th' = [th EXCEPT ![t] = V2NextPair(r)]
                           /\ UNCHANGED << ACTIVE_SIGNALS, signals_v2_json, outbox, nextId >>
    /\ prev' = NoPrev
    /\ UNCHANGED << boot, sample, prog, clock, ticks, runs, ACTIVE_S, signals_json,
                    lock, SEND_LOCK, CHECK_LOCK, CACHE >>

\* still_active = []
V2CheckBegin(t) ==
    /\ prog = "bot"
    /\ boot = "running"
    /\ t = MainThread
    /\ th[t].pc = "idle"
    /\ runs < MaxRuns
    /\ runs' = runs + 1
    /\ th' = [th EXCEPT ![t] = [IdleThread EXCEPT !.k = 1,
                 !.pc = IF ACTIVE_SIGNALS = << >> THEN "v2_chk_write" ELSE "v2_chk"]]
    /\ UNCHANGED prev
    /\ UNCHANGED << boot, sample, prog, clock, ticks, ACTIVE_S, signals_json, ACTIVE_SIGNALS,
                    signals_v2_json, lock, SEND_LOCK, CHECK_LOCK, CACHE, outbox, nextId >>

\* build_result_msg: the result label
V2Result(sig, current) ==
    IF (sig.direction = "BUY" /\ current >= sig.tp)
       \/ (sig.direction = "SELL" /\ current <= sig.tp) THEN "GANADA"
    ELSE IF (sig.direction = "BUY" /\ current <= sig.sl)
            \/ (sig.direction = "SELL" /\ current >= sig.sl) THEN "PERDIDA"
    ELSE "EMPATE"

\* a tie kept open for the next tick
V2Keeps_Tie(result, delivered) == result = "EMPATE"

\* bot.py lines 229-234: does the signal stay open after its result message;
\* delivered tells whether send_message returned
V2Keeps(result, delivered) == FALSE

\* one iteration of `for sig in ACTIVE_SIGNALS`
V2CheckEval(t) ==
    /\ th[t].pc = "v2_chk"
    /\ LET sig == ACTIVE_SIGNALS[th[t].k]
           nxt(r) == [r EXCEPT !.k = @ + 1,
                         !.pc = IF th[t].k < Len(ACTIVE_SIGNALS) THEN "v2_chk"
                                ELSE "v2_chk_write"]
           keep(r) == nxt([r EXCEPT !.still = Append(@, sig)])
       IN  IF InHolding(clock, sig)
           THEN /\ th' = [th EXCEPT ![t] =
                            keep([th[t] EXCEPT !.last = Eval(sig, FALSE, FALSE, 0, "")])]
                /\ UNCHANGED << outbox, nextId >>
           ELSE \E resp \in LatestFor(sig.pair), ok \in BOOLEAN :
                  LET result == V2Result(sig, resp.price)
                      r2 == [th[t] EXCEPT !.tried = @ \cup { [sig |-> sig, ok |-> ok] },
                                !.last = Eval(sig, TRUE, TRUE, resp.price, result)]
                  IN  IF ~resp.ok
                      THEN /\ th' = [th EXCEPT ![t] =
                                       keep([th[t] EXCEPT !.none = @ \cup { sig },
                                               !.last = Eval(sig, TRUE, FALSE, 0, "")])]
                           /\ UNCHANGED << outbox, nextId >>
                      ELSE /\ th' = [th EXCEPT ![t] =
                                       IF V2Keeps(result, ok) THEN keep(r2) ELSE nxt(r2)]
                           /\ IF ok
                              THEN /\ outbox' = Append(outbox,
                                        Message(result, sig.pair, nextId, sig.message_id))
                                   /\ nextId' = nextId + 1
                              ELSE UNCHANGED << outbox, nextId >>
    /\ UNCHANGED prev
    /\ UNCHANGED << boot, sample, prog, clock, ticks, runs, ACTIVE_S, signals_json, ACTIVE_SIGNALS,
                    signals_v2_json, lock, SEND_LOCK, CHECK_LOCK, CACHE >>

\* the list not replaced
V2Replace_Kept(store, still_active) == store

\* ACTIVE_SIGNALS[:] = still_active: the new content of the list
V2Replace(store, still_active) == still_active

\* ACTIVE_SIGNALS[:] = still_active; save_json(SIGNAL_FILE, ACTIVE_SIGNALS)
V2CheckWrite(t) ==
    /\ th[t].pc = "v2_chk_write"
    /\ ACTIVE_SIGNALS' = V2Replace(ACTIVE_SIGNALS, th[t].still)
    /\ signals_v2_json' = ACTIVE_SIGNALS'
    /\ th' = [th EXCEPT ![t] = IdleThread]
    /\ prev' = Done(th[t].tried)
    /\ UNCHANGED << boot, sample, prog, clock, ticks, runs, ACTIVE_S, signals_json,
                    lock, SEND_LOCK, CHECK_LOCK, CACHE, outbox, nextId >>

\* ------------------------------------------------------------ specification
Next ==
    \/ Load
    \/ Tick
    \/ \E t \in Threads : FxSendBegin(t)
    \/ \E t \in Threads : FxSendCheck(t)
    \/ \E t \in Threads : FxSendFetch(t)
    \/ \E t \in Threads : FxSendNotify(t)
    \/ \E t \in Threads : FxSendAppend(t)
    \/ \E t \in Threads : FxSendEnd(t)
    \/ \E t \in Threads : save(t)
    \/ \E t \in Threads : FxCheckBegin(t)
    \/ \E t \in Threads : FxCheckSnapshot(t)
    \/ \E t \in Threads : FxCheckEval(t)
    \/ \E t \in Threads : FxCheckWrite(t)
    \/ \E t \in Threads : V2SendBegin(t)
    \/ \E t \in Threads : V2SendPair(t)
    \/ \E t \in Threads : V2CheckBegin(t)
    \/ \E t \in Threads : V2CheckEval(t)
    \/ \E t \in Threads : V2CheckWrite(t)

Spec == Init /\ [][Next]_vars

TypeOK ==
    /\ prog \in { "botfx", "bot" }
    /\ lock \in Threads \cup { NoThread }
    /\ SEND_LOCK \in 0..1
    /\ CHECK_LOCK \in 0..1

\* ------------------------------------------- the indicators of botfx.py alone
\* everything but a sample of closes, at rest
Quiet ==
    /\ prog = "botfx"
    /\ boot = "missing"
    /\ clock = 21600
    /\ ticks = 0
    /\ runs = 0
    /\ ACTIVE_S = << >> /\ signals_json = << >>
    /\ ACTIVE_SIGNALS = << >> /\ signals_v2_json = << >>
    /\ lock = NoThread /\ SEND_LOCK = 1 /\ CHECK_LOCK = 1
    /\ CACHE = [p \in PairSet |-> NoCache]
    /\ outbox = << >>
    /\ nextId = FirstNewId
    /\ th = [t \in Threads |-> IdleThread]
    /\ prev = NoPrev

\* closes of n points: a moves up by step, then b candles without a move,
\* then moves down by step (upFirst), or the downs before the ups
Shape(n, a, b, step, upFirst) ==
    Walk(StartPrice,
         IF upFirst THEN Rep(a, step) \o Rep(b, 0) \o Rep(n - 1 - a - b, -step)
         ELSE Rep(n - 1 - a - b, -step) \o Rep(b, 0) \o Rep(a, step))

\* Init draws a series of LOOKBACK - 1 .. LOOKBACK + SampleSpan points
InitInd ==
    /\ Quiet
    /\ \E n \in (LOOKBACK - 1)..(LOOKBACK + SampleSpan),
          a \in 0..(LOOKBACK + SampleSpan), b \in 0..(LOOKBACK + SampleSpan),
          step \in { 1, 20 }, upFirst \in BOOLEAN :
          /\ a + b <= n - 1
          /\ sample = [NoSample EXCEPT !.closes = Shape(n, a, b, step, upFirst)]

\* rsi_val = rsi(closes); atr_val = atr(closes)
Indicators ==
    /\ ~sample.done
    /\ sample' = [sample EXCEPT !.done = TRUE, !.rsi = rsi(sample.closes),
                                !.atr = atr(sample.closes)]
    /\ UNCHANGED << prog, boot, clock, ticks, runs, ACTIVE_S, signals_json,
                    ACTIVE_SIGNALS, signals_v2_json, lock, SEND_LOCK, CHECK_LOCK,
                    CACHE, outbox, nextId, th, prev >>

NextInd == Indicators

SpecInd == InitInd /\ [][NextInd]_vars

\* --------------------------------------- bot.py check_results, run for ever
\* schedule.every(30).seconds.do(check_results): the job stays due however
\* many invocations have run (the count of runs is a bound of Spec only)
V2CheckAgain ==
    /\ prog = "bot"
    /\ boot = "running"
    /\ th[MainThread].pc = "idle"
    /\ runs = MaxRuns
    /\ runs' = MaxRuns - 1
    /\ UNCHANGED << boot, sample, prog, clock, ticks, ACTIVE_S, signals_json,
                    ACTIVE_SIGNALS, signals_v2_json, lock, SEND_LOCK, CHECK_LOCK,
                    CACHE, outbox, nextId, th, prev >>

\* an iteration of check_results in which get_price_latest returns a price
\* for the signal of pair p
V2GotPrice(p) ==
    /\ V2CheckEval(MainThread)
    /\ th'[MainThread].last.got
    /\ th'[MainThread].last.sig.pair = p

InitLive == Init /\ prog = "bot"

NextLive ==
    \/ Load
    \/ Tick
    \/ V2CheckBegin(MainThread)
    \/ V2CheckEval(MainThread)
    \/ V2CheckWrite(MainThread)
    \/ V2CheckAgain

\* check_results keeps being invoked and each invocation runs on; for every
\* pair, a latest-price lookup that is made again and again succeeds at last
SpecLive ==
    /\ InitLive
    /\ [][NextLive]_vars
    /\ WF_vars(Load)
    /\ WF_vars(V2CheckBegin(MainThread))
    /\ WF_vars(V2CheckEval(MainThread))
    /\ WF_vars(V2CheckWrite(MainThread))
    /\ WF_vars(V2CheckAgain)
    /\ \A p \in PairSet : SF_vars(V2GotPrice(p))

\* ------------------------------------------------------------------- claims
InStore(store, sig) == \E j \in 1..Len(store) : store[j] = sig

InSend(t) == th[t].pc \in { "snd_chk", "snd_fetch", "snd_notify", "snd_append",
                            "snd_save", "snd_save_wait", "snd_end" }

InCheck(t) == th[t].pc \in { "chk_snap", "chk_loop", "chk_write", "chk_save",
                             "chk_save_wait" }

\* thread t waits in save() for the lock it holds itself: it never goes on
Blocked(t) == th[t].pc \in { "snd_save_wait", "chk_save_wait" } /\ lock = t

\* the step is one of thread t
StepOf(t) == th'[t] # th[t]

\* C1: at most one open signal per pair, in ACTIVE_S under every interleaving
\* of the two tasks of botfx.py and in ACTIVE_SIGNALS of bot.py.
C1_OnePerPair ==
    /\ \A a, b \in 1..Len(ACTIVE_S) : ACTIVE_S[a].pair = ACTIVE_S[b].pair => a = b
    /\ \A a, b \in 1..Len(ACTIVE_SIGNALS) :
          ACTIVE_SIGNALS[a].pair = ACTIVE_SIGNALS[b].pair => a = b

\* send_signals appended to a store that check_results is working on
C1_Witness ==
    /\ Len(ACTIVE_S) >= 2
    /\ ACTIVE_S[Len(ACTIVE_S)].message_id >= FirstNewId
    /\ \E t \in Threads : th[t].pc \in { "chk_loop", "chk_write" }

\* take profit and stop loss on opposite sides of the entry
WellSided(s) ==
    /\ s.direction = "BUY" => (s.sl < s.entry /\ s.entry < s.tp)
    /\ s.direction = "SELL" => (s.tp < s.entry /\ s.entry < s.sl)

\* C2: every signal send_signals appends has, after tick rounding,
\* sl < entry < tp when BUY and tp < entry < sl when SELL.
C2_TargetsAroundEntry ==
    /\ \A j \in 1..Len(ACTIVE_S) :
          ACTIVE_S[j].message_id >= FirstNewId => WellSided(ACTIVE_S[j])
    /\ \A j \in 1..Len(ACTIVE_SIGNALS) :
          ACTIVE_SIGNALS[j].message_id >= FirstNewId => WellSided(ACTIVE_SIGNALS[j])

\* C3: send_signals appends a signal only after send_message returned for that
\* pair in the same invocation, storing the message_id it returned; a failed
\* send_message leaves the store, in memory and on disk, as it was.
C3_AppendOnlyAfterDelivery ==
    [][ /\ \A t \in Threads :
             (th[t].pc = "snd_notify" /\ StepOf(t)) =>
                /\ ACTIVE_S' = ACTIVE_S /\ signals_json' = signals_json
                /\ IF th'[t].pc = "snd_append"
                   THEN /\ outbox' = Append(outbox,
                              Message("signal", PAIRS[th[t].i], nextId, 0))
                        /\ th'[t].m = nextId
                   ELSE outbox' = outbox
        /\ \A t \in Threads :
             (th[t].pc = "snd_append" /\ StepOf(t)) =>
                \E j \in 1..Len(outbox) :
                   /\ outbox[j].kind = "signal"
                   /\ outbox[j].id = th[t].m
                   /\ ACTIVE_S' = Append(ACTIVE_S,
                         [th[t].cand EXCEPT !.pair = outbox[j].pair, !.message_id = outbox[j].id])
        \* once the list is loaded, nothing else makes it longer
        /\ (boot = "running" /\ Len(ACTIVE_S') > Len(ACTIVE_S)) =>
              \E t \in Threads : th[t].pc = "snd_append" /\ StepOf(t)
        /\ \A t \in Threads :
             (th[t].pc = "v2_snd" /\ StepOf(t)) =>
                IF outbox' = outbox
                THEN ACTIVE_SIGNALS' = ACTIVE_SIGNALS /\ signals_v2_json' = signals_v2_json
                ELSE /\ Len(ACTIVE_SIGNALS') = Len(ACTIVE_SIGNALS) + 1
                     /\ LET new == ACTIVE_SIGNALS'[Len(ACTIVE_SIGNALS')]
                        IN  /\ ACTIVE_SIGNALS' = Append(ACTIVE_SIGNALS, new)
                            /\ outbox' = Append(outbox,
                                  Message("signal", PAIRS[th[t].i], new.message_id, 0))
                            /\ new.pair = PAIRS[th[t].i]
        /\ (boot = "running" /\ Len(ACTIVE_SIGNALS') > Len(ACTIVE_SIGNALS)) =>
              th[MainThread].pc = "v2_snd" /\ StepOf(MainThread)
      ]_vars

\* a signal was announced and appended while an earlier pair of the same
\* invocation had its send_message fail (requested, not announced, not stored)
C3_Witness ==
    /\ Len(ACTIVE_S) >= 1
    /\ ACTIVE_S[Len(ACTIVE_S)].message_id >= FirstNewId
    /\ \E t \in Threads :
          /\ th[t].pc \in { "snd_save", "snd_save_wait" }
          /\ \E p \in th[t].req :
                /\ ~HasPair(ACTIVE_S, p)
                /\ \A j \in 1..Len(outbox) : outbox[j].pair # p

\* the step is the write-back of check_results by thread t
FxWriteBack(t) == th[t].pc = "chk_write" /\ th'[t].pc = "chk_save"
V2WriteBack(t) == th[t].pc = "v2_chk_write" /\ th'[t].pc = "idle"

\* C4: a signal whose result notification failed is still in the open store
\* after the invocation of check_results, to be retried on the next tick.
C4_FailedResultKeepsSignal ==
    [][ \A t \in Threads :
          /\ FxWriteBack(t) =>
                \A x \in th[t].tried : ~x.ok => InStore(ACTIVE_S', x.sig)
          /\ V2WriteBack(t) =>
                \A x \in th[t].tried : ~x.ok => InStore(ACTIVE_SIGNALS', x.sig)
      ]_vars

\* C5: check_results leaves every signal younger than 300 seconds in the store
\* as it is, looks up no price for it and sends no notification for it.
C5_HoldingPeriod ==
    [][ \A t \in Threads :
          /\ (th[t].pc = "chk_loop" /\ StepOf(t)
                /\ th[t].dt - th[t].signals[th[t].k].created_at < HOLD_SECONDS) =>
                /\ th'[t].still = Append(th[t].still, th[t].signals[th[t].k])
                /\ ~th'[t].last.looked
                /\ th'[t].tried = th[t].tried
                /\ UNCHANGED << outbox, nextId, CACHE, ACTIVE_S, signals_json >>
          /\ (th[t].pc = "v2_chk" /\ StepOf(t)
                /\ clock - ACTIVE_SIGNALS[th[t].k].created_at < HOLD_SECONDS) =>
                /\ th'[t].still = Append(th[t].still, ACTIVE_SIGNALS[th[t].k])
                /\ ~th'[t].last.looked
                /\ th'[t].tried = th[t].tried
                /\ UNCHANGED << outbox, nextId, ACTIVE_SIGNALS, signals_v2_json >>
          /\ FxWriteBack(t) =>
                \A j \in 1..Len(ACTIVE_S) :
                   th[t].dt - ACTIVE_S[j].created_at < HOLD_SECONDS =>
                      InStore(ACTIVE_S', ACTIVE_S[j])
          /\ V2WriteBack(t) =>
                \A j \in 1..Len(ACTIVE_SIGNALS) :
                   clock - ACTIVE_SIGNALS[j].created_at < HOLD_SECONDS =>
                      /\ InStore(ACTIVE_SIGNALS', ACTIVE_SIGNALS[j])
                      /\ InStore(signals_v2_json', ACTIVE_SIGNALS[j])
      ]_vars

\* check_results wrote the store back with a signal younger than 300 s in it,
\* beside one that it resolved
C5_Witness ==
    \E t \in Threads :
       /\ th[t].pc = "chk_save"
       /\ th[t].tried # {}
       /\ \E j \in 1..Len(ACTIVE_S) :
             /\ th[t].dt - ACTIVE_S[j].created_at < HOLD_SECONDS
             /\ InStore(th[t].signals, ACTIVE_S[j])

\* C6: a signal past the holding period whose latest price is unavailable
\* stays in the store, gets no result notification, and is evaluated again by
\* a later invocation (the invocation that kept it ends and frees its gate).
C6_UnavailableRetried ==
    \A t \in Threads :
       /\ th[t].pc \in { "chk_write", "v2_chk_write", "chk_save", "chk_save_wait" } =>
             \A s \in th[t].none :
                /\ InStore(th[t].still, s)
                /\ \A x \in th[t].tried : x.sig # s
                /\ \A j \in 1..Len(outbox) : outbox[j].reply_to # s.message_id
       /\ (th[t].none # {} /\ InCheck(t)) => ~Blocked(t)

\* WIN and LOSS as the claim words them ("" when neither)
Outcome(sig, latest) ==
    IF (sig.direction = "BUY" /\ latest >= sig.tp)
       \/ (sig.direction = "SELL" /\ latest <= sig.tp) THEN "GANADA"
    ELSE IF (sig.direction = "BUY" /\ latest <= sig.sl)
            \/ (sig.direction = "SELL" /\ latest >= sig.sl) THEN "PERDIDA"
    ELSE ""

C8_OpenPairSkipped ==
    [][ \A t \in Threads :
          /\ (th[t].pc = "snd_chk" /\ StepOf(t)
                /\ \E j \in 1..Len(ACTIVE_S) : ACTIVE_S[j].pair = PAIRS[th[t].i]) =>
                /\ th'[t].pc \in { "snd_chk", "snd_end" }
                /\ th'[t].pc = "snd_chk" => th'[t].i = th[t].i + 1
                /\ th'[t].req = th[t].req
                /\ UNCHANGED << outbox, nextId, ACTIVE_S, signals_json >>
          /\ (th[t].pc = "v2_snd" /\ StepOf(t)
                /\ \E j \in 1..Len(ACTIVE_SIGNALS) : ACTIVE_SIGNALS[j].pair = PAIRS[th[t].i]) =>
                /\ th'[t].pc \in { "v2_snd", "idle" }
                /\ th'[t].pc = "v2_snd" => (th'[t].i = th[t].i + 1 /\ th'[t].req = th[t].req)
                /\ PAIRS[th[t].i] \notin th'[t].req
                /\ UNCHANGED << outbox, nextId, ACTIVE_SIGNALS, signals_v2_json >>
          \* the rest of the invocation works on later pairs only
          /\ (InSend(t) /\ StepOf(t) /\ th'[t].pc # "idle") =>
                /\ th'[t].i >= th[t].i
                /\ th'[t].req \subseteq th[t].req \cup { PAIRS[th[t].i] }
          /\ (th[t].pc = "v2_snd" /\ StepOf(t) /\ th'[t].pc = "v2_snd") =>
                /\ th'[t].i = th[t].i + 1
                /\ th'[t].req \subseteq th[t].req \cup { PAIRS[th[t].i] }
      ]_vars

\* send_signals went past EUR/USD, which has an open signal, without a request
\* for it, and requested the series of a later pair
C8_Witness ==
    /\ \E j \in 1..Len(ACTIVE_SIGNALS) :
          ACTIVE_SIGNALS[j].pair = PAIRS[1] /\ ACTIVE_SIGNALS[j].message_id < FirstNewId
    /\ th[MainThread].pc = "v2_snd"
    /\ th[MainThread].i > 2
    /\ PAIRS[1] \notin th[MainThread].req
    /\ PAIRS[2] \in th[MainThread].req

\* C9: SEND_LOCK and CHECK_LOCK each admit one invocation at a time; an
\* invocation that finds its gate taken returns at once, with no notification,
\* no change of the store and no waiting; and every invocation that acquired
\* its gate frees it again (it is never blocked for good with the gate held).
C9_GateExclusiveAndReleased ==
    [][ /\ Cardinality({ t \in Threads : InSend(t) }') <= 1
        /\ Cardinality({ t \in Threads : InCheck(t) }') <= 1
        /\ (SEND_LOCK' = 0) = (\E t \in Threads : InSend(t)')
        /\ (CHECK_LOCK' = 0) = (\E t \in Threads : InCheck(t)')
        /\ \A t \in Threads :
              (prog = "botfx" /\ th[t].pc = "idle" /\ runs' = runs + 1 /\ th'[t].pc = "idle"
                 /\ \A u \in Threads \ { t } : th[u].pc # "idle") =>
                 UNCHANGED << th, outbox, nextId, ACTIVE_S, signals_json, lock,
                              SEND_LOCK, CHECK_LOCK >>
        /\ \A t \in Threads : (InSend(t)' \/ InCheck(t)') => ~Blocked(t)'
      ]_vars

\* the membership of signal s in the stores and the files does not change
SameFor(s) ==
    /\ InStore(ACTIVE_S', s) = InStore(ACTIVE_S, s)
    /\ InStore(signals_json', s) = InStore(signals_json, s)
    /\ InStore(ACTIVE_SIGNALS', s) = InStore(ACTIVE_SIGNALS, s)
    /\ InStore(signals_v2_json', s) = InStore(signals_v2_json, s)

\* a check_results call resolved a signal and nothing but check_results has
\* run since
AfterResolving == prev.valid /\ prev.resolved # {}

\* the step belongs to a call of check_results that follows such a call at once
SecondCall == AfterResolving /\ prev'.valid

\* C10 as claimed: the second of two check_results calls in immediate
\* succession sends no result notification for a signal the first resolved
\* and removed, raises no error, and leaves the open store, in memory and on
\* disk, equal to what the first call left.
C10_SecondCallNoOp ==
    [][ SecondCall =>
          /\ UNCHANGED << ACTIVE_S, signals_json, ACTIVE_SIGNALS, signals_v2_json >>
          /\ \A t \in Threads : th'[t].pc # "crashed"
          /\ \A s \in prev.resolved :
                /\ \A t \in Threads : th'[t].last.sig # s \/ th'[t].last = th[t].last
                /\ Len(outbox') > Len(outbox) =>
                      outbox'[Len(outbox')].reply_to # s.message_id
      ]_vars

\* C10 amended: the second call is a no-op for the signal the first resolved:
\* it does not evaluate it, sends no result notification for it, raises no
\* error, and leaves the signal out of ACTIVE_S / ACTIVE_SIGNALS and its
\* presence in the files as the first call left it (absent from
\* signals_v2.json); signals the first call left open may be resolved by it.
C10_ResolvedStaysGone ==
    [][ SecondCall =>
          /\ \A t \in Threads : th'[t].pc # "crashed"
          /\ \A s \in prev.resolved :
                /\ SameFor(s)
                /\ ~InStore(ACTIVE_S', s)
                /\ ~InStore(ACTIVE_SIGNALS', s)
                /\ ~InStore(signals_v2_json', s)
                /\ \A t \in Threads : th'[t].last.sig # s \/ th'[t].last = th[t].last
                /\ Len(outbox') > Len(outbox) =>
                      outbox'[Len(outbox')].reply_to # s.message_id
      ]_vars

\* a second check_results call, right after one that resolved a signal, is
\* evaluating a signal that the first call left open
C10_Witness ==
    /\ AfterResolving
    /\ th[MainThread].pc = "v2_chk_write"
    /\ th[MainThread].last.sig # NoSignal
    /\ \A s \in prev.resolved : ~InStore(ACTIVE_SIGNALS, s)

\* the loop of send_signals goes on from pair i of thread record r to the next
\* pair (or, after the last pair, to the end of the invocation)
GoesOn(r, r2, loop, end) ==
    IF r.i < NPairs THEN r2.pc = loop /\ r2.i = r.i + 1 ELSE r2.pc = end

\* C11: in send_signals, a pair whose price-series request gave nothing usable
\* (no answer, a timeout / transport / HTTP error, too few points) is passed
\* over and every later pair of the batch is still evaluated.
C11_LaterPairsEvaluated ==
    [][ \A t \in Threads :
          /\ (th[t].pc = "snd_fetch" /\ StepOf(t) /\ th'[t].pc # "snd_notify") =>
                GoesOn(th[t], th'[t], "snd_chk", "snd_end")
          /\ (th[t].pc = "v2_snd" /\ StepOf(t) /\ outbox' = outbox) =>
                GoesOn(th[t], th'[t], "v2_snd", "idle")
      ]_vars

\* the signals of store that are not in store2
Removed(store, store2) ==
    { store[j] : j \in { k \in 1..Len(store) : ~InStore(store2, store[k]) } }

\* C12: a signal leaves the open store only at the write-back of a
\* check_results invocation that attempted a result notification for it.
C12_RemovedOnlyWhenNotified ==
    [][ /\ \A s \in Removed(ACTIVE_S, ACTIVE_S') :
              \E t \in Threads :
                 FxWriteBack(t) /\ \E x \in th[t].tried : x.sig = s
        /\ \A s \in Removed(ACTIVE_SIGNALS, ACTIVE_SIGNALS') :
              \E t \in Threads :
                 V2WriteBack(t) /\ \E x \in th[t].tried : x.sig = s
      ]_vars

\* C13: at process start a missing backing file and a corrupt or truncated
\* one both give an empty open-signal collection, and the process goes on to
\* start the scheduler.
C13_BadFileStartsEmpty ==
    [][ (boot \in { "missing", "truncated", "garbled" } /\ boot' # boot) =>
           /\ boot' = "running"
           /\ ACTIVE_S' = << >>
           /\ ACTIVE_SIGNALS' = << >>
      ]_vars

\* C14: every mutation of the open store is flushed to the backing file before
\* the task that made it finishes: with no invocation in progress the file
\* holds the in-memory list, and an invocation that goes no further has
\* flushed what it changed.
C14_FlushedBeforeFinish ==
    boot = "running" =>
       /\ (\A t \in Threads : th[t].pc = "idle") =>
             (signals_json = ACTIVE_S /\ signals_v2_json = ACTIVE_SIGNALS)
       /\ \A t \in Threads : Blocked(t) => signals_json = ACTIVE_S

\* C15: with window 14, rsi(closes) and atr(closes) of botfx.py are None for
\* every series of exactly 14 points and defined for every series of 15.
C15_WindowBoundary ==
    sample.done =>
       /\ Len(sample.closes) = LOOKBACK =>
             (IsNone(sample.rsi) /\ IsNone(sample.atr))
       /\ Len(sample.closes) = LOOKBACK + 1 =>
             (~IsNone(sample.rsi) /\ ~IsNone(sample.atr))

\* C16: no exception raised inside an invocation of send_signals or
\* check_results ends the process: the scheduling loop goes on to later ticks.
C16_NoTickEndsProcess ==
    \A t \in Threads : th[t].pc # "crashed"

\* C17: in botfx.py no thread is ever blocked for good on `lock`: an
\* invocation that acquired its gate runs to completion, also through the
\* save() it calls while holding `lock`, and frees gate and lock.
C17_NoThreadBlockedOnLock ==
    \A t \in Threads :
       /\ ~Blocked(t)
       /\ th[t].pc \notin { "snd_save_wait", "chk_save_wait" }
       /\ (th[t].pc = "idle" /\ \A u \in Threads : th[u].pc = "idle") =>
             (lock = NoThread /\ SEND_LOCK = 1 /\ CHECK_LOCK = 1)

\* the signals appended to ACTIVE_S since check_results of thread c took its
\* snapshot: in the list, young enough for the snapshot, and not in it
ConcurrentAppends(c) ==
    { ACTIVE_S[j] : j \in { k \in 1..Len(ACTIVE_S) :
                              /\ FxRecent(th[c].dt, ACTIVE_S[k])
                              /\ ~InStore(th[c].signals, ACTIVE_S[k]) } }

\* C18: a signal that send_signals appends between the snapshot and the
\* write-back of a check_results invocation is not discarded by the bulk
\* replacement, and that invocation completes (so the signal ends up in
\* ACTIVE_S and in the backing file).
C18_ConcurrentAppendKept ==
    [][ \A c \in Threads :
          /\ FxWriteBack(c) =>
                \A s \in ConcurrentAppends(c) : InStore(ACTIVE_S', s)
          /\ (th[c].pc \in { "chk_loop", "chk_write" } /\ ConcurrentAppends(c) # {}) =>
                \A u \in Threads : ~Blocked(u)
      ]_vars

\* pair p has a signal in ACTIVE_SIGNALS whose holding period has elapsed
V2Due(p) ==
    \E j \in 1..Len(ACTIVE_SIGNALS) :
       /\ ACTIVE_SIGNALS[j].pair = p
       /\ clock - ACTIVE_SIGNALS[j].created_at >= HOLD_SECONDS

\* C19: in bot.py, while check_results keeps being invoked and the
\* latest-price lookup succeeds at last, every signal whose 300-second holding
\* period has elapsed is removed from the store in the end, whatever the price.
C19_EventuallyRemoved ==
    \A p \in PairSet : V2Due(p) ~> ~HasPair(ACTIVE_SIGNALS, p)

\* a signal whose latest price lay strictly between sl and tp was reported
\* EMPATE in a reply to its message and is gone from store and file
C19_Witness ==
    /\ prog = "bot"
    /\ th[MainThread].pc = "idle"
    /\ \E j \in 1..Len(outbox) :
          /\ outbox[j].kind = "EMPATE"
          /\ \A k \in 1..Len(ACTIVE_SIGNALS) :
                ACTIVE_SIGNALS[k].message_id # outbox[j].reply_to
          /\ \A k \in 1..Len(signals_v2_json) :
                signals_v2_json[k].message_id # outbox[j].reply_to

RECURSIVE IsSubSeq(_, _)
\* a is what is left of b after taking some of its elements out: the same
\* records, in the same order
IsSubSeq(a, b) ==
    IF a = << >> THEN TRUE
    ELSE IF b = << >> THEN FALSE
    ELSE IF Head(a) = Head(b) THEN IsSubSeq(Tail(a), Tail(b))
    ELSE IsSubSeq(a, Tail(b))

\* store2 is store, or store with one signal appended
AppendOnly(store, store2) ==
    \/ store2 = store
    \/ /\ Len(store2) = Len(store) + 1
       /\ SubSeq(store2, 1, Len(store)) = store

\* C20: a stored signal is immutable: a step of send_signals leaves every
\* entry of the open store in place and unchanged (it only appends), and a
\* step of check_results leaves the store a subsequence of what it was: no
\* field of a kept signal changes and the kept signals keep their order.
C20_StoredSignalImmutable ==
    [][ \A t \in Threads :
          /\ (InSend(t) /\ StepOf(t)) => AppendOnly(ACTIVE_S, ACTIVE_S')
          /\ (th[t].pc = "v2_snd" /\ StepOf(t)) =>
                /\ AppendOnly(ACTIVE_SIGNALS, ACTIVE_SIGNALS')
                /\ AppendOnly(signals_v2_json, signals_v2_json')
          /\ (InCheck(t) /\ StepOf(t)) => IsSubSeq(ACTIVE_S', ACTIVE_S)
          /\ (th[t].pc \in { "v2_chk", "v2_chk_write" } /\ StepOf(t)) =>
                /\ IsSubSeq(ACTIVE_SIGNALS', ACTIVE_SIGNALS)
                /\ IsSubSeq(signals_v2_json', signals_v2_json)
      ]_vars

\* check_results of botfx.py wrote back, in their order, two signals that it
\* kept: one inside its holding period and one for want of a price
C20_Witness ==
    \E t \in Threads :
       /\ th[t].pc = "chk_save"
       /\ Len(ACTIVE_S) = 2
       /\ ACTIVE_S = th[t].signals
       /\ th[t].none # {}
       /\ \E j \in 1..2 : th[t].dt - ACTIVE_S[j].created_at < HOLD_SECONDS

====
